---- MODULE Spec2Model ----
(***************************************************************************)
(* Model of PortScanner.go: the scanner configuration and its setters,     *)
(* the single-port probe IsOpen, the bounded-concurrency sweep             *)
(* GetOpenedPorts (submitting loop, admission gate `sem`, WaitGroup `wg`,  *)
(* mutex `mu`, one worker goroutine per port) and the identification       *)
(* policy DescribePort with the predictor chain and the MySQL follow-up.   *)
(* Go strings are TLA+ strings; concatenation is \o.                       *)
(***************************************************************************)
EXTENDS Integers, Sequences, FiniteSets, TLC

(* ------------------------------ bounds --------------------------------- *)
\* Ports 1..MaxPort are the ports a sweep may cover.
MaxPort == 3
\* SetThreads / NewPortScanner draw the limit from -1..MaxThreads.
MaxThreads == 2

ScanPorts == 1..MaxPort
ThreadChoices == (-1)..MaxThreads
Timeouts == {"1s", "2s"}
Hosts == {"localhost"}
\* Ports handed to DescribePort: not in the table (1), a plain table entry
\* (22), the two HTTP ports and the MySQL port.
DescribePorts == {1, 22, 80, 8080, 3306}
\* Predictor instances: the two built by NewPortScanner and one of the caller.
BuiltinPredictors == <<"apache", "nginx">>
CallerPredictors == {"custom"}
\* What a server on the MySQL port sends before it stalls or closes, and
\* after how many seconds it sends it.
ServerData == {"", "5", "5.7.44", "5.7.44-0ubuntu0.18.04.1"}
ServerDelays == {0, 5}

(* --------------------------- program constants ------------------------- *)
UNKNOWN == "<unknown>"
\* getMySQLVersion: make([]byte, 20) and the 3 second deadline
ReadBufLen == 20
ReadDeadline == 3
\* The zero byte of a fresh Go byte slice (TLA+ strings cannot hold U+0000;
\* "@" stands for it and occurs in no ServerData).
NUL == "@"

KNOWN_PORTS ==
  21 :> "FTP"
  @@ 22 :> "SSH"
  @@ 23 :> "Telnet"
  @@ 25 :> "SMTP"
  @@ 53 :> "DNS"
  @@ 66 :> "Oracle SQL*NET?"
  @@ 69 :> "TFTP"
  @@ 80 :> "HTTP"
  @@ 88 :> "Kerberos"
  @@ 109 :> "POP2"
  @@ 110 :> "POP3"
  @@ 118 :> "SQL Service?"
  @@ 123 :> "NTP"
  @@ 137 :> "NetBIOS"
  @@ 139 :> "NetBIOS"
  @@ 143 :> "IMAP"
  @@ 150 :> "SQL-Net?"
  @@ 194 :> "IRC"
  @@ 443 :> "HTTPS"
  @@ 445 :> "Samba"
  @@ 465 :> "SMTP over SSL"
  @@ 554 :> "RTSP"
  @@ 5800 :> "VNC Remote Desktop"
  @@ 631 :> "CUPS"
  @@ 993 :> "IMAP over SSL"
  @@ 995 :> "POP3 over SSL"
  @@ 1433 :> "Microsoft SQL Server"
  @@ 1434 :> "Microsoft SQL Monitor"
  @@ 3306 :> "MySQL"
  @@ 3389 :> "Remote Desktop Protocol (RDP)"
  @@ 3396 :> "Novell NDPS Printer Agent"
  @@ 3535 :> "SMTP (Alternate)"
  @@ 5432 :> "PostgreSQL"
  @@ 6379 :> "Redis"
  @@ 8080 :> "HTTP Alternate"
  @@ 9160 :> "Cassandra"
  @@ 9200 :> "Elasticsearch"
  @@ 11211 :> "Memcached"
  @@ 27017 :> "MongoDB"
  @@ 28017 :> "MongoDB Web Admin"

VARIABLES
  \* PortScanner fields
  host, predictors, timeout, threads, usePredictor,
  \* environment: which ports accept connections; when ~stable every
  \* connection attempt may succeed or fail independently
  listening, stable,
  \* the caller: position, the receiver copy of the running call, the call
  \* made last and its return values
  pc, self, op, retOpen, retPorts, retDesc,
  \* locals of GetOpenedPorts and its worker goroutines; tmp[p] is the slice
  \* value worker p's append has read, opened the ports whose dial succeeded
  port, sem, wg, mu, openPorts, wpc, tmp, opened,
  \* locals of DescribePort, PredictUsingPredictor and getMySQLVersion:
  \* loop index, table guess, description, number of deferred conn.Close()
  idx, assumed, description, deferred,
  \* observations of the running call: connections currently open, dial
  \* attempts made, the predictor loop's iterations, the MySQL server's
  \* behaviour and the outcome of conn.Read
  conns, dials, attempts, srv

cfgVars == <<host, predictors, timeout, threads, usePredictor>>
envVars == <<listening, stable>>
retVars == <<retOpen, retPorts, retDesc>>
scanVars == <<port, sem, wg, mu, openPorts, wpc, tmp, opened>>
descVars == <<idx, assumed, description, deferred, attempts, srv>>
vars == <<host, predictors, timeout, threads, usePredictor, listening, stable,
          pc, self, op, retOpen, retPorts, retDesc, port, sem, wg, mu,
          openPorts, wpc, tmp, opened, idx, assumed, description, deferred, conns, dials,
          attempts, srv>>

\* The value receiver `(ps PortScanner)` copies the struct at the call.
Receiver ==
  [host |-> host, predictors |-> predictors, timeout |-> timeout,
   threads |-> threads, usePredictor |-> usePredictor]

\* net.DialTimeout: the outcomes a connection attempt to port p can have.
DialOutcomes(p) == IF stable THEN {p \in listening} ELSE BOOLEAN

\* openConn: net.ResolveTCPAddr may fail before net.DialTimeout is tried.
OpenConnOutcomes(p) ==
  IF stable THEN {IF p \in listening THEN "ok" ELSE "dial_err"}
  ELSE {"resolve_err", "dial_err", "ok"}

\* Predictor.Predict(host) returns a ServiceLabel; the empty string means
\* "no match".  A non-empty result is an identification string of the
\* predictor's own (PredictorLabel stands for it, one per instance) or a
\* canonical known-service name, the table's labels of the HTTP ports among
\* them.
PredictorLabel ==
  "apache" :> "Apache" @@ "nginx" :> "Nginx" @@ "custom" :> "Custom"
KnownServiceLabels == {KNOWN_PORTS[80], KNOWN_PORTS[8080]}
PredictOutcomes(pred) == {"", PredictorLabel[pred]} \cup KnownServiceLabels

NoWorkers == [p \in ScanPorts |-> "none"]
NoTmp == [p \in ScanPorts |-> <<>>]
NoServer == [data |-> "", delay |-> 0, eof |-> FALSE, n |-> 0, err |-> FALSE,
             buf |-> ""]

hostPort(ps, p) == ps.host \o ":" \o ToString(p)

IsHttpOnly80(p) == p = 80
\* lines 114-116
IsHttp(p) == p = 80 \/ p = 8080

predictPort(p) == IF p \in DOMAIN KNOWN_PORTS THEN KNOWN_PORTS[p] ELSE UNKNOWN

RECURSIVE Zeros(_)
Zeros(n) == IF n <= 0 THEN "" ELSE NUL \o Zeros(n - 1)

\* conn.Read(result) on a fresh buffer of ReadBufLen zero bytes with the
\* deadline set: it returns as soon as some data has arrived (at most the
\* buffer's length is copied), io.EOF when the peer closed without data, and
\* a timeout error when nothing arrived before the deadline.
ConnRead(data, delay, eof) ==
  IF delay < ReadDeadline /\ Len(data) > 0
  THEN LET n == IF Len(data) < ReadBufLen THEN Len(data) ELSE ReadBufLen
       IN [n |-> n, err |-> FALSE,
           buf |-> SubSeq(data, 1, n) \o Zeros(ReadBufLen - n)]
  ELSE [n |-> 0, err |-> TRUE, buf |-> Zeros(ReadBufLen)]

\* Every call starts with fresh locals and observations.
ResetScan ==
  /\ port' = 0 /\ sem' = 0 /\ wg' = 0 /\ mu' = 0
  /\ openPorts' = <<>> /\ wpc' = NoWorkers
  /\ tmp' = NoTmp /\ opened' = {}
ResetDesc ==
  /\ idx' = 0 /\ assumed' = "" /\ description' = "" /\ deferred' = 0
  /\ attempts' = <<>> /\ srv' = NoServer
ResetRet ==
  /\ retOpen' = FALSE /\ retPorts' = <<>> /\ retDesc' = ""

Init ==
  /\ host \in Hosts
  /\ predictors = BuiltinPredictors
  /\ timeout \in Timeouts
  /\ threads \in ThreadChoices
  /\ usePredictor = TRUE
  /\ stable \in BOOLEAN
  /\ listening \in (IF stable THEN SUBSET ScanPorts ELSE {{}})
  /\ pc = "idle"
  /\ self = Receiver
  /\ op = [name |-> "NewPortScanner", port |-> 0, start |-> 0, end |-> 0]
  /\ retOpen = FALSE /\ retPorts = <<>> /\ retDesc = ""
  /\ port = 0 /\ sem = 0 /\ wg = 0 /\ mu = 0
  /\ openPorts = <<>> /\ wpc = NoWorkers
  /\ tmp = NoTmp /\ opened = {}
  /\ idx = 0 /\ assumed = "" /\ description = "" /\ deferred = 0
  /\ attempts = <<>> /\ srv = NoServer
  /\ conns = 0
  /\ dials = 0

(* ------------------------------ setters -------------------------------- *)
\* The caller's bookkeeping is untouched by a setter.
SetterFrame ==
  UNCHANGED <<envVars, pc, self, op, retVars, scanVars, descVars, conns, dials>>

\* (a toggle that also puts the registry back to the built-in predictors)
TogglePredictorResetsRegistry(b) ==
  /\ pc = "idle"
  /\ usePredictor' = b
  /\ predictors' = BuiltinPredictors
  /\ UNCHANGED <<host, timeout, threads>>
  /\ SetterFrame

\* lines 33-35
TogglePredictor(b) ==
  /\ pc = "idle"
  /\ usePredictor' = b
  /\ UNCHANGED <<host, predictors, timeout, threads>>
  /\ SetterFrame

SetThreads(t) ==
  /\ pc = "idle"
  /\ threads' = t
  /\ UNCHANGED <<host, predictors, timeout, usePredictor>>
  /\ SetterFrame

SetTimeout(d) ==
  /\ pc = "idle"
  /\ timeout' = d
  /\ UNCHANGED <<host, predictors, threads, usePredictor>>
  /\ SetterFrame

\* lines 46-51: append unless an equal instance is already registered
Registered(ps, x) == \E i \in 1..Len(ps) : ps[i] = x
\* (a registration that puts the new instance in front)
RegisterPredictorInFront(x) ==
  /\ pc = "idle"
  /\ predictors' = IF Registered(predictors, x) THEN predictors
                   ELSE <<x>> \o predictors
  /\ UNCHANGED <<host, timeout, threads, usePredictor>>
  /\ SetterFrame

RegisterPredictor(x) ==
  /\ pc = "idle"
  /\ predictors' = IF Registered(predictors, x) THEN predictors
                   ELSE Append(predictors, x)
  /\ UNCHANGED <<host, timeout, threads, usePredictor>>
  /\ SetterFrame

(* ------------------------------- IsOpen -------------------------------- *)
\* lines 55-56: the address is formatted and net.DialTimeout is started
IsOpen(p) ==
  /\ pc = "idle"
  /\ self' = Receiver
  /\ op' = [name |-> "IsOpen", port |-> p, start |-> 0, end |-> 0]
  /\ ResetScan /\ ResetDesc /\ ResetRet
  /\ conns' = 0
  /\ dials' = 1
  /\ pc' = "io_dial"
  /\ UNCHANGED <<cfgVars, envVars>>

\* lines 56-59: the dial completes; an error returns false
IsOpenDial ==
  /\ pc = "io_dial"
  /\ \E ok \in DialOutcomes(op.port) :
       IF ok THEN /\ conns' = conns + 1
                  /\ pc' = "io_close"
                  /\ UNCHANGED retVars
             ELSE /\ retOpen' = FALSE
                  /\ pc' = "idle"
                  /\ UNCHANGED <<conns, retPorts, retDesc>>
  /\ UNCHANGED <<cfgVars, envVars, self, op, scanVars, descVars, dials>>

\* lines 60-61: conn.Close(); return true
IsOpenClose ==
  /\ pc = "io_close"
  /\ conns' = conns - 1
  /\ retOpen' = TRUE
  /\ pc' = "idle"
  /\ UNCHANGED <<cfgVars, envVars, self, op, retPorts, retDesc, scanVars,
                 descVars, dials>>

(* --------------------------- GetOpenedPorts ---------------------------- *)
\* `sem <- struct{}{}` on a channel of capacity cap holding n tokens: the
\* send proceeds only while the buffer has room (no receiver is ever waiting
\* at that point, so capacity 0 never proceeds).
SemCanSendUnbounded(n, cap) == TRUE
SemCanSend(n, cap) == n < cap

\* wg.Wait() returns once the counter is zero.
WaitPassesEarly(n) == TRUE
WaitPasses(n) == n = 0

\* The frame of a step of the submitting loop or of a worker.
ScanFrame == UNCHANGED <<cfgVars, envVars, self, op, retOpen, retDesc, descVars>>

\* lines 65-70: locals are declared, `make(chan struct{}, ps.threads)` panics
\* on a negative size; the loop is entered when start <= end.
GetOpenedPorts(start, end) ==
  /\ pc = "idle"
  /\ self' = Receiver
  /\ op' = [name |-> "GetOpenedPorts", port |-> 0, start |-> start, end |-> end]
  /\ openPorts' = <<>>
  /\ mu' = 0
  /\ wg' = 0
  /\ sem' = 0
  /\ wpc' = NoWorkers
  /\ tmp' = NoTmp
  /\ opened' = {}
  /\ port' = start
  /\ ResetDesc /\ ResetRet
  /\ conns' = 0
  /\ dials' = 0
  /\ pc' = IF threads < 0 THEN "panic"
           ELSE IF start <= end THEN "send" ELSE "wait"
  /\ UNCHANGED <<cfgVars, envVars>>

\* line 71: sem <- struct{}{}
SemSend ==
  /\ pc = "send"
  /\ SemCanSend(sem, self.threads)
  /\ sem' = sem + 1
  /\ pc' = "spawn"
  /\ UNCHANGED <<retPorts, port, wg, mu, openPorts, wpc, conns, dials, tmp, opened>>
  /\ ScanFrame

\* (a loop that stops one port short: port < end)
SpawnSkipLast ==
  /\ pc = "spawn"
  /\ wg' = wg + 1
  /\ wpc' = [wpc EXCEPT ![port] = "spawned"]
  /\ port' = port + 1
  /\ pc' = IF port + 1 < op.end THEN "send" ELSE "wait"
  /\ UNCHANGED <<retPorts, sem, mu, openPorts, conns, dials, tmp, opened>>
  /\ ScanFrame

\* lines 72-82: wg.Add(1); go func(port){...}(port); port++; loop test
Spawn ==
  /\ pc = "spawn"
  /\ wg' = wg + 1
  /\ wpc' = [wpc EXCEPT ![port] = "spawned"]
  /\ port' = port + 1
  /\ pc' = IF port + 1 <= op.end THEN "send" ELSE "wait"
  /\ UNCHANGED <<retPorts, sem, mu, openPorts, conns, dials, tmp, opened>>
  /\ ScanFrame

\* lines 84-85: wg.Wait(); return openPorts
WaitReturn ==
  /\ pc = "wait"
  /\ WaitPasses(wg)
  /\ retPorts' = openPorts
  /\ pc' = "idle"
  /\ UNCHANGED <<scanVars, conns, dials>>
  /\ ScanFrame

\* worker, line 75: ps.IsOpen(port) starts its net.DialTimeout
WStart(p) ==
  /\ wpc[p] = "spawned"
  /\ wpc' = [wpc EXCEPT ![p] = "dial"]
  /\ dials' = dials + 1
  /\ UNCHANGED <<pc, retPorts, port, sem, wg, mu, openPorts, conns, tmp, opened>>
  /\ ScanFrame

\* (a worker that returns after a failed probe without giving its slot back)
WDialLeakOnFail(p) ==
  /\ wpc[p] = "dial"
  /\ \E ok \in DialOutcomes(p) :
       /\ wpc' = [wpc EXCEPT ![p] = IF ok THEN "close" ELSE "done"]
       /\ conns' = IF ok THEN conns + 1 ELSE conns
       /\ opened' = IF ok THEN opened \cup {p} ELSE opened
  /\ UNCHANGED <<pc, retPorts, port, sem, wg, mu, openPorts, dials, tmp>>
  /\ ScanFrame

\* (a worker that records the port whatever the dial's outcome)
WDialIgnoreErr(p) ==
  /\ wpc[p] = "dial"
  /\ \E ok \in DialOutcomes(p) :
       /\ wpc' = [wpc EXCEPT ![p] = "close"]
       /\ conns' = conns + 1
       /\ opened' = IF ok THEN opened \cup {p} ELSE opened
  /\ UNCHANGED <<pc, retPorts, port, sem, wg, mu, openPorts, dials, tmp>>
  /\ ScanFrame

\* worker, IsOpen lines 56-59: the dial completes; failure returns false
WDial(p) ==
  /\ wpc[p] = "dial"
  /\ \E ok \in DialOutcomes(p) :
       /\ wpc' = [wpc EXCEPT ![p] = IF ok THEN "close" ELSE "recv"]
       /\ conns' = IF ok THEN conns + 1 ELSE conns
       /\ opened' = IF ok THEN opened \cup {p} ELSE opened
  /\ UNCHANGED <<pc, retPorts, port, sem, wg, mu, openPorts, dials, tmp>>
  /\ ScanFrame

\* worker, IsOpen lines 60-61: conn.Close(); return true
WClose(p) ==
  /\ wpc[p] = "close"
  /\ conns' = conns - 1
  /\ wpc' = [wpc EXCEPT ![p] = "lock"]
  /\ UNCHANGED <<pc, retPorts, port, sem, wg, mu, openPorts, dials, tmp, opened>>
  /\ ScanFrame

\* (a lock that does not wait for its holder)
WLockNoWait(p) ==
  /\ wpc[p] = "lock"
  /\ mu' = p
  /\ wpc' = [wpc EXCEPT ![p] = "append"]
  /\ UNCHANGED <<pc, retPorts, port, sem, wg, openPorts, conns, dials, tmp, opened>>
  /\ ScanFrame

\* worker, line 76: mu.Lock()
WLock(p) ==
  /\ wpc[p] = "lock"
  /\ mu = 0
  /\ mu' = p
  /\ wpc' = [wpc EXCEPT ![p] = "append"]
  /\ UNCHANGED <<pc, retPorts, port, sem, wg, openPorts, conns, dials, tmp, opened>>
  /\ ScanFrame

\* worker, line 77, first half: append reads the slice openPorts
WLoad(p) ==
  /\ wpc[p] = "append"
  /\ tmp' = [tmp EXCEPT ![p] = openPorts]
  /\ wpc' = [wpc EXCEPT ![p] = "store"]
  /\ UNCHANGED <<pc, retPorts, port, sem, wg, mu, openPorts, conns, dials,
                 opened>>
  /\ ScanFrame

\* (a worker closure that reads the loop's variable, not its own argument)
WAppendLoopVar(p) ==
  /\ wpc[p] = "store"
  /\ openPorts' = Append(tmp[p], port)
  /\ tmp' = [tmp EXCEPT ![p] = <<>>]
  /\ wpc' = [wpc EXCEPT ![p] = "unlock"]
  /\ UNCHANGED <<pc, retPorts, port, sem, wg, mu, conns, dials, opened>>
  /\ ScanFrame

\* worker, line 77, second half: the slice read, extended by the worker's
\* port, is assigned to openPorts
WAppend(p) ==
  /\ wpc[p] = "store"
  /\ openPorts' = Append(tmp[p], p)
  /\ tmp' = [tmp EXCEPT ![p] = <<>>]
  /\ wpc' = [wpc EXCEPT ![p] = "unlock"]
  /\ UNCHANGED <<pc, retPorts, port, sem, wg, mu, conns, dials, opened>>
  /\ ScanFrame

\* worker, line 78: mu.Unlock()
WUnlock(p) ==
  /\ wpc[p] = "unlock"
  /\ mu' = 0
  /\ wpc' = [wpc EXCEPT ![p] = "recv"]
  /\ UNCHANGED <<pc, retPorts, port, sem, wg, openPorts, conns, dials, tmp, opened>>
  /\ ScanFrame

\* (a worker that leaves its slot of the gate taken)
WRecvNoRelease(p) ==
  /\ wpc[p] = "recv"
  /\ wpc' = [wpc EXCEPT ![p] = "done"]
  /\ UNCHANGED <<pc, retPorts, port, sem, wg, mu, openPorts, conns, dials, tmp, opened>>
  /\ ScanFrame

\* worker, line 80: <-sem
WRecv(p) ==
  /\ wpc[p] = "recv"
  /\ sem > 0
  /\ sem' = sem - 1
  /\ wpc' = [wpc EXCEPT ![p] = "done"]
  /\ UNCHANGED <<pc, retPorts, port, wg, mu, openPorts, conns, dials, tmp, opened>>
  /\ ScanFrame

\* worker, line 74: the deferred wg.Done() runs as the goroutine returns
WDone(p) ==
  /\ wpc[p] = "done"
  /\ wg' = wg - 1
  /\ wpc' = [wpc EXCEPT ![p] = "exited"]
  /\ UNCHANGED <<pc, retPorts, port, sem, mu, openPorts, conns, dials, tmp, opened>>
  /\ ScanFrame

Worker(p) ==
  \/ WStart(p) \/ WDial(p) \/ WClose(p) \/ WLock(p) \/ WLoad(p) \/ WAppend(p)
  \/ WUnlock(p) \/ WRecv(p) \/ WDone(p)

(* ---------------------------- DescribePort ----------------------------- *)
\* (a policy that returns the unknown sentinel without asking the predictors)
DescribeBranchNoFallThrough(use, p) ==
  IF ~use THEN "table"
  ELSE IF p = 80 \/ p = 8080 THEN "chain"
  ELSE IF predictPort(p) = "MySQL" THEN "mysql"
  ELSE "table"

\* (a policy that does not look at the flag)
DescribeBranchNoFlag(use, p) ==
  IF p = 80 \/ p = 8080 THEN "chain"
  ELSE IF predictPort(p) = UNKNOWN THEN "chain"
  ELSE IF predictPort(p) = "MySQL" THEN "mysql"
  ELSE "table"

\* lines 93-108: which way DescribePort goes for a port, given the flag.
DescribeBranch(use, p) ==
  IF ~use THEN "table"
  ELSE IF IsHttp(p) THEN "chain"
  ELSE IF predictPort(p) = UNKNOWN THEN "chain"
  ELSE IF predictPort(p) = "MySQL" THEN "mysql"
  ELSE "table"

\* (a loop that goes on after a match)
ChainStopsNever(result) == FALSE

\* line 125: a non-empty result ends the predictor loop
ChainStops(result) == Len(result) > 0

\* (a follow-up that reports a failed read as unknown)
MySQLDescriptionUnknownOnErr(guess, r) ==
  IF ~r.err THEN guess \o " version: " \o r.buf ELSE UNKNOWN

\* (a follow-up that wants the whole buffer filled, as io.ReadFull would)
MySQLDescriptionFullOnly(guess, r) ==
  IF ~r.err /\ r.n = ReadBufLen THEN guess \o " version: " \o r.buf ELSE guess

\* lines 150-153: the description built from the outcome r of conn.Read
MySQLDescription(guess, r) ==
  IF ~r.err THEN guess \o " version: " \o r.buf ELSE guess

DescFrame == UNCHANGED <<cfgVars, envVars, self, op, retOpen, retPorts, scanVars>>

\* lines 92-111 up to the first network operation; the table branches return
\* at once.
DescribePort(p) ==
  /\ pc = "idle"
  /\ self' = Receiver
  /\ op' = [name |-> "DescribePort", port |-> p, start |-> 0, end |-> 0]
  /\ ResetScan
  /\ retOpen' = FALSE /\ retPorts' = <<>>
  /\ conns' = 0 /\ dials' = 0 /\ deferred' = 0
  /\ attempts' = <<>> /\ srv' = NoServer
  /\ LET b == DescribeBranch(usePredictor, p) IN
       /\ assumed' = IF usePredictor /\ ~IsHttp(p) THEN predictPort(p) ELSE ""
       /\ description' = IF ~usePredictor THEN predictPort(p)
                         ELSE IF IsHttp(p) THEN UNKNOWN ELSE predictPort(p)
       /\ idx' = IF b = "chain" THEN 1 ELSE 0
       /\ retDesc' = IF b = "table" THEN predictPort(p) ELSE ""
       /\ pc' = IF b = "table" THEN "idle" ELSE b
  /\ UNCHANGED <<cfgVars, envVars>>

\* (a loop that goes on to Predict although openConn failed)
ChainOpenConnIgnoreErr ==
  /\ pc = "chain"
  /\ idx <= Len(self.predictors)
  /\ \E o \in OpenConnOutcomes(op.port) :
       /\ dials' = IF o = "resolve_err" THEN dials ELSE dials + 1
       /\ attempts' = Append(attempts,
            [pred |-> self.predictors[idx],
             host |-> hostPort(self, op.port), conn |-> (o = "ok"),
             invoked |-> FALSE, result |-> ""])
       /\ conns' = IF o = "ok" THEN conns + 1 ELSE conns
       /\ deferred' = IF o = "ok" THEN deferred + 1 ELSE deferred
       /\ pc' = "predict"
       /\ UNCHANGED idx
  /\ UNCHANGED <<retDesc, assumed, description, srv>>
  /\ DescFrame

\* PredictUsingPredictor lines 119-124: openConn for the next predictor; on
\* an error the loop continues, otherwise conn.Close() is deferred
ChainOpenConn ==
  /\ pc = "chain"
  /\ idx <= Len(self.predictors)
  /\ \E o \in OpenConnOutcomes(op.port) :
       /\ dials' = IF o = "resolve_err" THEN dials ELSE dials + 1
       /\ attempts' = Append(attempts,
            [pred |-> self.predictors[idx],
             host |-> hostPort(self, op.port), conn |-> (o = "ok"),
             invoked |-> FALSE, result |-> ""])
       /\ IF o = "ok"
          THEN /\ conns' = conns + 1
               /\ deferred' = deferred + 1
               /\ pc' = "predict"
               /\ UNCHANGED idx
          ELSE /\ idx' = idx + 1
               /\ UNCHANGED <<conns, deferred, pc>>
  /\ UNCHANGED <<retDesc, assumed, description, srv>>
  /\ DescFrame

\* PredictUsingPredictor lines 125-127: predictor.Predict(host) is called for
\* the predictor of this iteration and its result recorded
ChainPredict ==
  /\ pc = "predict"
  /\ \E r \in PredictOutcomes(self.predictors[idx]) :
       /\ attempts' = [attempts EXCEPT ![Len(attempts)] =
                          [@ EXCEPT !.invoked = TRUE, !.result = r]]
       /\ IF ChainStops(r)
          THEN /\ description' = r
               /\ pc' = "chain_ret"
               /\ UNCHANGED idx
          ELSE /\ idx' = idx + 1
               /\ pc' = "chain"
               /\ UNCHANGED description
  /\ UNCHANGED <<retDesc, assumed, deferred, srv, conns, dials>>
  /\ DescFrame

\* PredictUsingPredictor line 129: the loop is over, return UNKNOWN
ChainExhausted ==
  /\ pc = "chain"
  /\ idx > Len(self.predictors)
  /\ description' = UNKNOWN
  /\ pc' = "chain_ret"
  /\ UNCHANGED <<retDesc, idx, assumed, deferred, attempts, srv, conns, dials>>
  /\ DescFrame

\* (a return that closes one connection only, not every deferred one)
ChainReturnClosesOne ==
  /\ pc = "chain_ret"
  /\ conns' = IF deferred > 0 THEN conns - 1 ELSE conns
  /\ deferred' = 0
  /\ retDesc' = description
  /\ pc' = "idle"
  /\ UNCHANGED <<idx, assumed, description, attempts, srv, dials>>
  /\ DescFrame

\* PredictUsingPredictor returns: the deferred conn.Close() calls run, and
\* DescribePort returns the result (lines 99/104, 111)
ChainReturn ==
  /\ pc = "chain_ret"
  /\ conns' = conns - deferred
  /\ deferred' = 0
  /\ retDesc' = description
  /\ pc' = "idle"
  /\ UNCHANGED <<idx, assumed, description, attempts, srv, dials>>
  /\ DescFrame

\* getMySQLVersion lines 141-145: openConn; an error returns the guess
MySQLOpenConn ==
  /\ pc = "mysql"
  /\ \E o \in OpenConnOutcomes(op.port) :
       /\ dials' = IF o = "resolve_err" THEN dials ELSE dials + 1
       /\ IF o = "ok"
          THEN /\ conns' = conns + 1
               /\ deferred' = deferred + 1
               /\ pc' = "mysql_read"
               /\ UNCHANGED retDesc
          ELSE /\ retDesc' = assumed
               /\ pc' = "idle"
               /\ UNCHANGED <<conns, deferred>>
  /\ UNCHANGED <<idx, assumed, description, attempts, srv>>
  /\ DescFrame

\* getMySQLVersion lines 147-153: deadline, 20 byte buffer, one conn.Read
MySQLRead ==
  /\ pc = "mysql_read"
  /\ \E data \in ServerData, delay \in ServerDelays, eof \in BOOLEAN :
       LET r == ConnRead(data, delay, eof) IN
         /\ srv' = [data |-> data, delay |-> delay, eof |-> eof,
                    n |-> r.n, err |-> r.err, buf |-> r.buf]
         /\ description' = MySQLDescription(assumed, r)
  /\ pc' = "mysql_ret"
  /\ UNCHANGED <<retDesc, idx, assumed, deferred, attempts, conns, dials>>
  /\ DescFrame

\* getMySQLVersion returns: the deferred conn.Close() runs (line 145) and
\* DescribePort returns the description (lines 107, 111)
MySQLReturn ==
  /\ pc = "mysql_ret"
  /\ conns' = conns - deferred
  /\ deferred' = 0
  /\ retDesc' = description
  /\ pc' = "idle"
  /\ UNCHANGED <<idx, assumed, description, attempts, srv, dials>>
  /\ DescFrame

(* ----------------------------- the program ----------------------------- *)
Next ==
  \/ \E b \in BOOLEAN : TogglePredictor(b)
  \/ \E t \in ThreadChoices : SetThreads(t)
  \/ \E d \in Timeouts : SetTimeout(d)
  \/ \E x \in CallerPredictors : RegisterPredictor(x)
  \/ \E p \in ScanPorts : IsOpen(p)
  \/ IsOpenDial
  \/ IsOpenClose
  \/ \E s \in ScanPorts, e \in ScanPorts : GetOpenedPorts(s, e)
  \/ SemSend
  \/ Spawn
  \/ WaitReturn
  \/ \E p \in ScanPorts : Worker(p)
  \/ \E p \in DescribePorts : DescribePort(p)
  \/ ChainOpenConn
  \/ ChainPredict
  \/ ChainExhausted
  \/ ChainReturn
  \/ MySQLOpenConn
  \/ MySQLRead
  \/ MySQLReturn

Spec == Init /\ [][Next]_vars

\* The sweeps of a scanner whose limit is set to any value between them.
ScanNext ==
  \/ \E t \in ThreadChoices : SetThreads(t)
  \/ \E s \in ScanPorts, e \in ScanPorts : GetOpenedPorts(s, e)
  \/ SemSend
  \/ Spawn
  \/ WaitReturn
  \/ \E p \in ScanPorts : Worker(p)

\* Go's scheduler runs every runnable goroutine eventually, and every
\* connection attempt ends (success, failure or timeout).
FairSpec ==
  /\ Init /\ [][ScanNext]_vars
  /\ WF_vars(SemSend)
  /\ WF_vars(Spawn)
  /\ WF_vars(WaitReturn)
  /\ \A p \in ScanPorts : WF_vars(Worker(p))

(* ------------------------------ properties ----------------------------- *)
SeqToSet(s) == {s[i] : i \in 1..Len(s)}
Range(a, b) == {p \in ScanPorts : a <= p /\ p <= b}
Scanning == op.name = "GetOpenedPorts" /\ pc \in {"send", "spawn", "wait"}
ScanReturned == op.name = "GetOpenedPorts" /\ pc = "idle"
\* workers inside ps.IsOpen: the dial is in progress or its connection is
\* not yet closed
InFlight == {p \in ScanPorts : wpc[p] \in {"dial", "close"}}
\* workers that have been started and have not returned
Running == {p \in ScanPorts : wpc[p] \notin {"none", "exited"}}

\* C1: during a sweep with a limit N >= 1, the number of workers inside
\* their IsOpen connection attempt never exceeds N.
C1_ConcurrencyBound ==
  (op.name = "GetOpenedPorts" /\ self.threads >= 1)
    => Cardinality(InFlight) <= self.threads

\* the gate is full with probes in flight and the submitting loop waits on it
C1_Witness ==
  /\ Scanning /\ pc = "send"
  /\ self.threads >= 1
  /\ Cardinality(InFlight) = self.threads

\* C2: GetOpenedPorts has returned only if every port of the range was
\* probed and no worker is still probing or about to append.
C2_JoinBarrier ==
  ScanReturned =>
    /\ Running = {}
    /\ \A p \in Range(op.start, op.end) : wpc[p] = "exited"
    /\ mu = 0

\* a sweep of several ports has returned with an open port found
C2_Witness ==
  /\ ScanReturned
  /\ op.start < op.end
  /\ Len(retPorts) >= 1

\* C3: in a stable environment the returned ports are, as a set, exactly the
\* listening ports of the range.
C3_ExactOpenSet ==
  (ScanReturned /\ stable)
    => SeqToSet(retPorts) = listening \cap Range(op.start, op.end)

\* a sweep over listening and non-listening ports has returned, run by more
\* than one worker at a time
C3_Witness ==
  /\ ScanReturned /\ stable
  /\ self.threads >= 2
  /\ Len(retPorts) >= 2
  /\ \E p \in Range(op.start, op.end) : p \notin listening

\* C4: the accumulator holds only ports of the range, none of them twice.
C4_AccumulatorInRangeDistinct ==
  op.name = "GetOpenedPorts" =>
    /\ \A i \in 1..Len(openPorts) :
         op.start <= openPorts[i] /\ openPorts[i] <= op.end
    /\ Cardinality(SeqToSet(openPorts)) = Len(openPorts)

\* two ports are recorded while another worker is still running
C4_Witness ==
  /\ Scanning
  /\ Len(openPorts) >= 2
  /\ Running # {}

\* C5: with a limit >= 1, fair scheduling and connection attempts that end,
\* a sweep in progress eventually returns.
C5_ScanTerminates ==
  (Scanning /\ self.threads >= 1) ~> ScanReturned

\* the submitting loop is held at the full gate
C5_Witness ==
  /\ Scanning /\ pc = "send"
  /\ self.threads >= 1
  /\ sem = self.threads
  /\ port <= op.end

DescribeCall == op.name = "DescribePort"
DescribeReturned == DescribeCall /\ pc = "idle"
InChain == pc \in {"chain", "predict", "chain_ret"}
\* conn.Read of the MySQL follow-up has returned
ReadDone == srv.err \/ srv.n > 0
\* the result of the predictor loop, read off its iterations
ChainResult(as) ==
  IF \E i \in 1..Len(as) : as[i].result # ""
  THEN as[CHOOSE i \in 1..Len(as) :
            as[i].result # "" /\ \A j \in 1..(i - 1) : as[j].result = ""].result
  ELSE UNKNOWN
IsPrefix(a, b) == Len(a) <= Len(b) /\ SubSeq(b, 1, Len(a)) = a

\* C6: the concurrency limit is >= 1 in every state, and so is the limit a
\* sweep sizes its gate with.
C6_LimitPositive ==
  /\ threads >= 1
  /\ op.name = "GetOpenedPorts" => self.threads >= 1

\* C7: with the flag off DescribePort returns the table's label (or the
\* unknown sentinel) at once: no connection attempt, no predictor.
C7_DisabledIsTableLookup ==
  (DescribeCall /\ ~self.usePredictor) =>
    /\ pc = "idle"
    /\ retDesc = predictPort(op.port)
    /\ dials = 0 /\ conns = 0
    /\ attempts = <<>>
    /\ ~ReadDone

\* the HTTP port described with the flag off
C7_Witness ==
  /\ DescribeReturned /\ ~self.usePredictor
  /\ op.port = 80
  /\ retDesc = "HTTP"

\* C8 as stated: with the flag on, ports 80 and 8080 get the predictor
\* loop's result and never the table labels "HTTP" or "HTTP Alternate"; any
\* other port with a table entry never reaches the predictor loop and keeps
\* its table label in front.
C8_HttpNeverTableLabel ==
  (DescribeCall /\ self.usePredictor) =>
    /\ op.port \in {80, 8080} =>
         /\ InChain \/ pc = "idle"
         /\ pc = "idle" =>
              /\ Len(attempts) >= 1
              /\ retDesc = ChainResult(attempts)
              /\ retDesc \notin {"HTTP", "HTTP Alternate"}
    /\ (op.port \notin {80, 8080} /\ op.port \in DOMAIN KNOWN_PORTS) =>
         /\ ~InChain
         /\ attempts = <<>>
         /\ pc = "idle" => IsPrefix(KNOWN_PORTS[op.port], retDesc)

\* C8 amended: with the flag on, ports 80 and 8080 go to the predictor loop
\* without a table lookup and get the loop's result, whatever string that
\* is: the first non-empty Predict result, else the unknown sentinel.  The
\* result is "HTTP" or "HTTP Alternate" only when an invoked predictor
\* yielded that very string, and it is the unknown sentinel, not the table
\* label, when no predictor matched.  Any other port with a table entry
\* never reaches the predictor loop and keeps its table label in front.
C8_HttpBypassesTable ==
  (DescribeCall /\ self.usePredictor) =>
    /\ op.port \in {80, 8080} =>
         /\ InChain \/ pc = "idle"
         /\ assumed = ""
         /\ pc = "idle" =>
              /\ Len(attempts) >= 1
              /\ retDesc = ChainResult(attempts)
              /\ retDesc \in {"HTTP", "HTTP Alternate"} =>
                   /\ attempts[Len(attempts)].invoked
                   /\ attempts[Len(attempts)].result = retDesc
              /\ (\A i \in 1..Len(attempts) : attempts[i].result = "")
                   => retDesc = UNKNOWN
    /\ (op.port \notin {80, 8080} /\ op.port \in DOMAIN KNOWN_PORTS) =>
         /\ ~InChain
         /\ attempts = <<>>
         /\ pc = "idle" => IsPrefix(KNOWN_PORTS[op.port], retDesc)

\* port 80 described by a predictor whose Predict yields the string "HTTP"
C8_Witness ==
  /\ DescribeReturned /\ self.usePredictor
  /\ op.port = 80
  /\ Len(attempts) = 2
  /\ attempts[1].invoked /\ attempts[1].result = ""
  /\ attempts[2].invoked /\ attempts[2].result = "HTTP"
  /\ retDesc = "HTTP"

\* C9 as stated: whenever the MySQL server sent fewer than 20 bytes and then
\* stalled, the description is the bare "MySQL".
C9_ShortReadGivesBareLabel ==
  (/\ DescribeReturned /\ self.usePredictor /\ op.port = 3306
   /\ ReadDone
   /\ Len(srv.data) < ReadBufLen /\ ~srv.eof)
    => retDesc = "MySQL"

\* C9 amended: the bare "MySQL" comes back only when no byte arrived before
\* the deadline; 1..19 bytes in time make the read succeed, and the
\* description is "MySQL version: " followed by the whole 20 byte buffer
\* (the bytes received, then zero bytes).
C9_ShortReadAmended ==
  (/\ DescribeReturned /\ self.usePredictor /\ op.port = 3306
   /\ ReadDone
   /\ Len(srv.data) < ReadBufLen /\ ~srv.eof)
    => IF srv.data = "" \/ srv.delay >= ReadDeadline
       THEN retDesc = "MySQL"
       ELSE /\ retDesc = "MySQL version: " \o srv.data
                           \o Zeros(ReadBufLen - Len(srv.data))
            /\ Len(retDesc) = Len("MySQL version: ") + ReadBufLen

\* the server sent one byte in time and then stalled
C9_Witness ==
  /\ DescribeReturned /\ self.usePredictor /\ op.port = 3306
  /\ ReadDone
  /\ srv.data = "5" /\ srv.delay < ReadDeadline /\ ~srv.eof

\* C10: the loop takes the predictors in registration order, only its last
\* iteration can have a non-empty result, that result is what is returned,
\* and the unknown sentinel is returned only after every predictor was tried
\* without a match.
C10_FirstMatchWins ==
  (DescribeCall /\ (InChain \/ attempts # <<>>)) =>
    /\ Len(attempts) <= Len(self.predictors)
    /\ \A i \in 1..Len(attempts) :
         /\ attempts[i].pred = self.predictors[i]
         /\ i < Len(attempts) => attempts[i].result = ""
    /\ (attempts # <<>> /\ attempts[Len(attempts)].result # "")
         => /\ pc \in {"chain_ret", "idle"}
            /\ description = attempts[Len(attempts)].result
    /\ pc = "idle" =>
         /\ retDesc = ChainResult(attempts)
         /\ retDesc = UNKNOWN =>
              /\ Len(attempts) = Len(self.predictors)
              /\ \A i \in 1..Len(attempts) : attempts[i].result = ""

\* three predictors registered: the first was asked and had no match, the
\* second matched, the third was never consulted
C10_Witness ==
  /\ DescribeReturned
  /\ Len(self.predictors) = 3
  /\ Len(attempts) = 2
  /\ attempts[1].invoked /\ attempts[1].result = ""
  /\ retDesc = "Nginx"

\* C11: the registry never holds an instance twice and always starts with
\* the two predictors of the constructor; a step changes it only by
\* appending one instance that was not in it; registering a present instance
\* changes nothing, registering a new one appends it at the end.
C11_RegistryIdempotentAppendOnly ==
  /\ [](/\ Cardinality(SeqToSet(predictors)) = Len(predictors)
        /\ IsPrefix(BuiltinPredictors, predictors))
  /\ [][/\ predictors' # predictors =>
             \E x \in CallerPredictors :
               /\ x \notin SeqToSet(predictors)
               /\ predictors' = Append(predictors, x)
        /\ \A x \in CallerPredictors :
             RegisterPredictor(x) =>
               predictors' = IF x \in SeqToSet(predictors) THEN predictors
                             ELSE Append(predictors, x)]_vars

\* the caller's instance was registered and a later call ran with it at the
\* end of the registry
C11_Witness ==
  /\ predictors = <<"apache", "nginx", "custom">>
  /\ self.predictors = predictors
  /\ DescribeReturned

SweepCall == op.name = "GetOpenedPorts" /\ pc # "panic"
\* workers between mu.Lock() and mu.Unlock()
InCritical == {p \in ScanPorts : wpc[p] \in {"append", "store", "unlock"}}
\* workers that hold a slot of the gate
Holding ==
  {p \in ScanPorts : wpc[p] \in {"spawned", "dial", "close", "lock", "append",
                                 "store", "unlock", "recv"}}
\* workers whose dial succeeded and whose append is still to come
AppendPending ==
  {p \in ScanPorts : wpc[p] \in {"close", "lock", "append", "store"}}

\* C12: when a call has returned, no connection it opened is still open and
\* no deferred Close is left to run.
C12_ConnectionsClosed ==
  pc = "idle" => (conns = 0 /\ deferred = 0)

\* the predictor loop opened two connections, found no match, and returned
C12_Witness ==
  /\ DescribeReturned
  /\ Len(attempts) >= 2
  /\ attempts[1].conn /\ attempts[2].conn
  /\ retDesc = UNKNOWN
  /\ conns = 0

\* C13: at most one worker is between Lock and Unlock and it is the holder
\* of the mutex; no worker holds the mutex while it is in IsOpen; every port
\* whose dial succeeded is in the accumulator once its append is done, and
\* in the returned slice.
C13_AppendsExcluded ==
  SweepCall =>
    /\ Cardinality(InCritical) <= 1
    /\ \A p \in ScanPorts : (mu = p) <=> (p \in InCritical)
    /\ mu # 0 => mu \in InCritical
    /\ \A p \in InFlight : mu # p
    /\ SeqToSet(openPorts) = opened \ AppendPending
    /\ pc = "idle" => SeqToSet(retPorts) = opened

\* one worker is in the middle of its append, holding the mutex, while
\* another waits for the mutex
C13_Witness ==
  /\ SweepCall
  /\ \E p, q \in ScanPorts :
       wpc[p] = "store" /\ mu = p /\ wpc[q] = "lock"

\* C14: the slots held are exactly those of the workers that have not yet
\* passed `<-sem` (plus the one just taken for the port being spawned), never
\* more than the admitted workers that have not finished; none is held when
\* the sweep has returned; and every worker holding a slot eventually gives
\* it back, whether its probe succeeded or failed.
C14_SlotsReleased ==
  /\ [](SweepCall =>
          /\ sem = Cardinality(Holding) + (IF pc = "spawn" THEN 1 ELSE 0)
          /\ sem <= Cardinality(Running) + (IF pc = "spawn" THEN 1 ELSE 0)
          /\ pc = "idle" => sem = 0)
  /\ \A p \in ScanPorts :
       (SweepCall /\ p \in Holding) ~> (wpc[p] \in {"done", "exited"})

\* the worker of a failed probe has given its slot back while another worker
\* still holds one
C14_Witness ==
  /\ SweepCall
  /\ \E p, q \in ScanPorts :
       /\ wpc[p] = "done" /\ p \notin opened
       /\ q \in Holding
  /\ sem = Cardinality(Holding)

\* C15: the ports admitted so far are exactly the ports of the range below
\* the loop's variable (ascending admission, each port once), every started
\* worker has made one connection attempt, and at the return every port of
\* the range has been probed with as many attempts as ports.
C15_EachPortOnceAscending ==
  SweepCall =>
    /\ \A p \in ScanPorts :
         wpc[p] # "none" <=> (op.start <= p /\ p < port /\ p <= op.end)
    /\ dials = Cardinality({p \in ScanPorts : wpc[p] \notin {"none", "spawned"}})
    /\ pc = "idle" =>
         /\ \A p \in Range(op.start, op.end) : wpc[p] = "exited"
         /\ dials = Cardinality(Range(op.start, op.end))

\* a sweep of three ports has returned, one probe having failed
C15_Witness ==
  /\ ScanReturned
  /\ op.end - op.start = 2
  /\ dials = 3
  /\ Len(retPorts) = 2

\* C16: with the flag on and a port other than 80 and 8080: a port without a
\* table entry gets the predictor loop's result; a port whose table label is
\* not "MySQL" gets that label at once, with no connection attempt and no
\* predictor.
C16_TableGuessOrChain ==
  (DescribeCall /\ self.usePredictor /\ op.port \notin {80, 8080}) =>
    /\ op.port \notin DOMAIN KNOWN_PORTS =>
         /\ InChain \/ pc = "idle"
         /\ ~ReadDone
         /\ pc = "idle" =>
              /\ Len(attempts) >= 1
              /\ retDesc = ChainResult(attempts)
    /\ (op.port \in DOMAIN KNOWN_PORTS /\ predictPort(op.port) # "MySQL") =>
         /\ pc = "idle"
         /\ retDesc = KNOWN_PORTS[op.port]
         /\ dials = 0 /\ conns = 0
         /\ attempts = <<>>
         /\ ~ReadDone

\* a port that is not in the table was described by the first predictor
C16_Witness ==
  /\ DescribeReturned /\ self.usePredictor
  /\ op.port = 1
  /\ retDesc = "Apache"

\* C17: for port 3306 with the flag on the predictor loop is never entered,
\* at most one connection is attempted, and when the connection or the read
\* failed the description is exactly "MySQL"; the call never ends in a panic
\* or with the unknown sentinel.
C17_MySQLFailuresSwallowed ==
  (DescribeCall /\ self.usePredictor /\ op.port = 3306) =>
    /\ pc \in {"mysql", "mysql_read", "mysql_ret", "idle"}
    /\ attempts = <<>>
    /\ dials <= 1
    /\ pc = "idle" =>
         /\ (~ReadDone \/ srv.err) => retDesc = "MySQL"
         /\ retDesc # UNKNOWN

\* the connection was made and the read failed
C17_Witness ==
  /\ DescribeReturned /\ self.usePredictor /\ op.port = 3306
  /\ ReadDone /\ srv.err
  /\ dials = 1
  /\ retDesc = "MySQL"

\* C18: after a successful read of n bytes the description is
\* "MySQL version: " followed by exactly the n bytes read.
C18_VersionIsBytesRead ==
  (/\ DescribeReturned /\ self.usePredictor /\ op.port = 3306
   /\ ReadDone /\ ~srv.err)
    => /\ 1 <= srv.n /\ srv.n <= ReadBufLen
       /\ retDesc = "MySQL version: " \o SubSeq(srv.data, 1, srv.n)

\* C19: Predict is invoked only in an iteration whose openConn succeeded; an
\* iteration whose openConn failed has no result and is followed by the next
\* predictor; when every openConn failed nothing was invoked and the result
\* is the unknown sentinel.
C19_PredictOnlyAfterConn ==
  DescribeCall =>
    /\ \A i \in 1..Len(attempts) :
         /\ attempts[i].invoked => attempts[i].conn
         /\ ~attempts[i].conn => attempts[i].result = ""
         /\ attempts[i].pred = self.predictors[i]
    /\ pc = "predict" => attempts[Len(attempts)].conn
    /\ (pc = "idle" /\ attempts # <<>>) =>
         /\ \A i \in 1..Len(attempts) : attempts[i].conn => attempts[i].invoked
         /\ (\A i \in 1..Len(attempts) : ~attempts[i].conn) =>
              /\ retDesc = UNKNOWN
              /\ Len(attempts) = Len(self.predictors)

\* the first predictor's connection failed, the second was connected and
\* answered
C19_Witness ==
  /\ DescribeReturned
  /\ Len(attempts) = 2
  /\ ~attempts[1].conn /\ ~attempts[1].invoked
  /\ attempts[2].conn /\ attempts[2].invoked
  /\ retDesc = "Nginx"

\* a step of IsOpen, GetOpenedPorts or DescribePort
CallStep == pc # "idle" \/ pc' # "idle" \/ op' # op \/ self' # self

\* C20: the steps of IsOpen, GetOpenedPorts and DescribePort leave the five
\* fields alone; any other step that changes a field changes no other field
\* and no return value; each setter leaves the fields of the others alone.
C20_Frame ==
  [][IF CallStep
     THEN UNCHANGED cfgVars
     ELSE /\ host' = host
          /\ usePredictor' # usePredictor =>
               UNCHANGED <<host, predictors, timeout, threads, retVars>>
          /\ threads' # threads =>
               UNCHANGED <<host, predictors, timeout, usePredictor, retVars>>
          /\ timeout' # timeout =>
               UNCHANGED <<host, predictors, threads, usePredictor, retVars>>
          /\ predictors' # predictors =>
               UNCHANGED <<host, timeout, threads, usePredictor, retVars>>
          /\ \A b \in BOOLEAN :
               TogglePredictor(b) =>
                 UNCHANGED <<host, predictors, timeout, threads>>
          /\ \A t \in ThreadChoices :
               SetThreads(t) =>
                 UNCHANGED <<host, predictors, timeout, usePredictor>>
          /\ \A d \in Timeouts :
               SetTimeout(d) =>
                 UNCHANGED <<host, predictors, threads, usePredictor>>
          /\ \A x \in CallerPredictors :
               RegisterPredictor(x) =>
                 UNCHANGED <<host, timeout, threads, usePredictor>>
    ]_vars

\* every setter has acted and a sweep has then run and returned with the
\* fields as the setters left them
C20_Witness ==
  /\ ScanReturned
  /\ Len(retPorts) >= 1
  /\ self = Receiver
  /\ ~usePredictor /\ Len(predictors) = 3
  /\ threads = 2 /\ timeout = "2s"
====
